---------------------------- MODULE Spec2Model ----------------------------
(***************************************************************************)
(* A model of palank-rag's hybrid retrieval core:                          *)
(*   - knowledge/chunker.rs  MarkdownChunker (a pure function on text),    *)
(*   - knowledge/store.rs    KnowledgeStore (SQLite documents + FTS5),     *)
(*   - knowledge/lance.rs    LanceVectorStore (the vector table),          *)
(*   - knowledge/hybrid.rs   HybridRetriever (ingest, delete, search, RRF),*)
(*   - embedding/mod.rs      GeminiEmbedding (rate limiter, retry loop),   *)
(*   - knowledge/vector.rs   chunk_text (the word-based chunker).          *)
(*                                                                         *)
(* Text is a sequence of bytes, because the chunker measures and slices    *)
(* by byte (str::len, &s[a..]).  A byte is a one-character string; the     *)
(* two-byte characters are a letter <<"L0","L1">> and a whitespace         *)
(* character <<"S0","S1">> (such as U+00A0), the second byte of each being *)
(* a UTF-8 continuation byte.                                              *)
(***************************************************************************)
EXTENDS Integers, Sequences, FiniteSets, TLC

VARIABLES
    \* ---- HybridRetriever and its two stores
    documents,   \* rows of the SQLite table documents: [id, url, content]
    fts,         \* rows of the FTS5 index documents_fts: [rowid, content]
    seq,         \* sqlite_sequence of documents (AUTOINCREMENT high-water mark)
    vectors,     \* rows of the LanceDB table, in insertion order
    tasks,       \* per caller: the call in progress and its locals
    lastAdd,     \* the add_document that succeeded with no other call since
    \* ---- MarkdownChunker taken alone
    cCfg, cText, cPhase, cRaw, cOut,
    \* ---- rrf_merge taken alone
    rFts, rVec, rLimit, rPhase, rOut,
    rBm25,       \* the bm25 scores of the keyword hits, for search_fts
    \* ---- GeminiEmbedding taken alone
    eNow,        \* the monotonic clock (Instant::now), in milliseconds
    eLimiter,    \* the RateLimiter behind the client's mutex
    eLock,       \* the holder of the mutex around the limiter
    eTasks,      \* per caller: the embed call in progress and its locals
    eAdmitted,   \* every timestamp the limiter has recorded, in order
    \* ---- vector::chunk_text taken alone
    wText, wChunkSize, wOverlap,   \* the arguments of the call
    wBuild,      \* the build profile: overflow checks on ("debug") or off
    wPhase,      \* "call", "loop" (before a pass of the while loop), "done", "panic"
    wStart,      \* the local start, a usize
    wChunks      \* the local chunks

retrieverVars == <<documents, fts, seq, vectors, tasks, lastAdd>>
chunkVars == <<cCfg, cText, cPhase, cRaw, cOut>>
rrfVars == <<rFts, rVec, rLimit, rPhase, rOut, rBm25>>
embedVars == <<eNow, eLimiter, eLock, eTasks, eAdmitted>>
wordVars == <<wText, wChunkSize, wOverlap, wBuild, wPhase, wStart, wChunks>>
vars == <<documents, fts, seq, vectors, tasks, lastAdd,
          cCfg, cText, cPhase, cRaw, cOut, rFts, rVec, rLimit, rPhase, rOut,
          rBm25,
          eNow, eLimiter, eLock, eTasks, eAdmitted,
          wText, wChunkSize, wOverlap, wBuild, wPhase, wStart, wChunks>>

-----------------------------------------------------------------------------
(* Generic helpers *)

Min2(a, b) == IF a < b THEN a ELSE b

Range(s) == {s[i] : i \in 1..Len(s)}

RECURSIVE Concat(_)
Concat(ss) == IF ss = <<>> THEN <<>> ELSE Head(ss) \o Concat(Tail(ss))

\* s[from..] in Rust's 0-based byte offsets
SliceFrom(s, from) == SubSeq(s, from + 1, Len(s))

-----------------------------------------------------------------------------
(* Bytes and characters *)

IsContinuation(b) == b \in {"L1", "S1"}

\* char::is_whitespace, by the first byte of the character
IsWhitespaceLead(b) == b \in {" ", "\n", "S0"}

\* the last byte of a whitespace character
IsWhitespaceTail(b) == b \in {" ", "\n", "S1"}

CharWidth(b) == IF b \in {"L0", "S0"} THEN 2 ELSE 1

\* str::is_char_boundary(index), index a 0-based byte offset
is_char_boundary(s, index) ==
    \/ index = 0
    \/ index = Len(s)
    \/ index < Len(s) /\ ~IsContinuation(s[index + 1])

RECURSIVE trim_start(_)
trim_start(s) ==
    IF s # <<>> /\ IsWhitespaceLead(s[1])
    THEN trim_start(SubSeq(s, CharWidth(s[1]) + 1, Len(s)))
    ELSE s

RECURSIVE trim_end(_)
trim_end(s) ==
    IF s # <<>> /\ IsWhitespaceTail(s[Len(s)])
    THEN trim_end(SubSeq(s, 1, Len(s) - (IF s[Len(s)] = "S1" THEN 2 ELSE 1)))
    ELSE s

trim(s) == trim_end(trim_start(s))

\* the first 1-based position at or after k where s holds byte b, 0 if none
RECURSIVE IndexFrom(_, _, _)
IndexFrom(s, b, k) ==
    IF k > Len(s) THEN 0
    ELSE IF s[k] = b THEN k
    ELSE IndexFrom(s, b, k + 1)

\* str::lines: split at "\n"; a final "\n" starts no further line
RECURSIVE lines(_)
lines(s) ==
    IF s = <<>> THEN <<>>
    ELSE LET k == IndexFrom(s, "\n", 1)
         IN IF k = 0 THEN <<s>>
            ELSE <<SubSeq(s, 1, k - 1)>> \o lines(SubSeq(s, k + 1, Len(s)))

\* the first 1-based position at or after k where s holds "\n\n", 0 if none
RECURSIVE BlankLineFrom(_, _)
BlankLineFrom(s, k) ==
    IF k + 1 > Len(s) THEN 0
    ELSE IF s[k] = "\n" /\ s[k + 1] = "\n" THEN k
    ELSE BlankLineFrom(s, k + 1)

\* str::split("\n\n")
RECURSIVE split_paragraphs(_)
split_paragraphs(s) ==
    LET k == BlankLineFrom(s, 1)
    IN IF k = 0 THEN <<s>>
       ELSE <<SubSeq(s, 1, k - 1)>> \o split_paragraphs(SubSeq(s, k + 2, Len(s)))

\* str::find(char::is_whitespace): 0-based byte offset of the first whitespace
\* character, -1 for None
RECURSIVE FindWhitespaceFrom(_, _)
FindWhitespaceFrom(s, k) ==
    IF k > Len(s) THEN -1
    ELSE IF IsWhitespaceLead(s[k]) THEN k - 1
    ELSE FindWhitespaceFrom(s, k + CharWidth(s[k]))

find_whitespace(s) == FindWhitespaceFrom(s, 1)

-----------------------------------------------------------------------------
(* MarkdownChunker (knowledge/chunker.rs) *)

\* the threshold of apply_overlap: an overlap of at most this many bytes is omitted
MinOverlapLen == 20

\* ChunkConfig::default()
DefaultConfig == [min_characters |-> 200, max_characters |-> 1200,
                  overlap_characters |-> 100]

\* the byte of the backtick character
Backtick == "bt"

\* line.trim_start().starts_with(three backticks)
StartsWithFence(line) ==
    LET t == trim_start(line)
    IN Len(t) >= 3 /\ t[1] = Backtick /\ t[2] = Backtick /\ t[3] = Backtick

\* the number of leading "#" of a line
RECURSIVE LeadingHashes(_, _)
LeadingHashes(line, k) ==
    IF k <= Len(line) /\ line[k] = "#" THEN LeadingHashes(line, k + 1) ELSE k - 1

\* header_re = (?m)^(#{1,6})\s+ on one line: 1 to 6 "#" and then whitespace
header_is_match(line) ==
    LET h == LeadingHashes(line, 1)
    IN h >= 1 /\ h <= 6 /\ h < Len(line) /\ IsWhitespaceLead(line[h + 1])

RECURSIVE SplitSectionsLoop(_, _, _, _, _)
SplitSectionsLoop(ls, i, current, in_code_block, sections) ==
    IF i > Len(ls)
    THEN IF trim(current) # <<>> THEN Append(sections, trim(current)) ELSE sections
    ELSE LET line == ls[i]
             in_code == IF StartsWithFence(line) THEN ~in_code_block ELSE in_code_block
             cut == ~in_code /\ header_is_match(line) /\ current # <<>>
         IN SplitSectionsLoop(ls, i + 1,
                (IF cut THEN <<>> ELSE current) \o line \o <<"\n">>,
                in_code,
                IF cut THEN Append(sections, trim(current)) ELSE sections)

split_sections(text) == SplitSectionsLoop(lines(text), 1, <<>>, FALSE, <<>>)

\* the loop over the lines of a paragraph longer than max_characters; st is
\* [chunks, line_chunk]
RECURSIVE LineLoop(_, _, _, _)
LineLoop(cfg, ls, i, st) ==
    IF i > Len(ls) THEN st
    ELSE LET line == ls[i]
             flush == st.line_chunk # <<>>
                      /\ Len(st.line_chunk) + Len(line) + 1 > cfg.max_characters
             chunks1 == IF flush THEN Append(st.chunks, st.line_chunk) ELSE st.chunks
             lc1 == IF flush THEN <<>> ELSE st.line_chunk
             lc2 == IF lc1 # <<>> THEN lc1 \o <<"\n">> ELSE lc1
         IN LineLoop(cfg, ls, i + 1, [chunks |-> chunks1, line_chunk |-> lc2 \o line])

\* the loop over the paragraphs of a section; st is [chunks, current]
RECURSIVE ParaLoop(_, _, _, _)
ParaLoop(cfg, paras, i, st) ==
    IF i > Len(paras) THEN st
    ELSE LET para == trim(paras[i])
         IN IF para = <<>> THEN ParaLoop(cfg, paras, i + 1, st)
            ELSE
            LET \* would adding to the current chunk exceed the maximum?
                flush1 == /\ st.current # <<>>
                          /\ Len(st.current) + Len(para) + 2 > cfg.max_characters
                          /\ Len(st.current) >= cfg.min_characters
                chunks1 == IF flush1 THEN Append(st.chunks, st.current) ELSE st.chunks
                current1 == IF flush1 THEN <<>> ELSE st.current
                \* the paragraph itself exceeds the maximum
                flush2 == current1 # <<>> /\ Len(current1) >= cfg.min_characters
                chunks2 == IF flush2 THEN Append(chunks1, current1) ELSE chunks1
                current2 == IF flush2 THEN <<>> ELSE current1
                ll == LineLoop(cfg, lines(para), 1,
                               [chunks |-> chunks2, line_chunk |-> <<>>])
            IN IF Len(para) > cfg.max_characters
               THEN ParaLoop(cfg, paras, i + 1,
                        [chunks |-> ll.chunks,
                         current |-> IF ll.line_chunk # <<>> THEN ll.line_chunk
                                     ELSE current2])
               ELSE ParaLoop(cfg, paras, i + 1,
                        [chunks |-> chunks1,
                         current |-> (IF current1 # <<>> THEN current1 \o <<"\n", "\n">>
                                      ELSE current1) \o para])

RECURSIVE MergeLoop(_, _, _, _)
MergeLoop(cfg, chunks, i, result) ==
    IF i > Len(chunks) THEN result
    ELSE LET chunk_i == chunks[i]
             n == Len(result)
             merge == /\ n > 0
                      /\ Len(result[n]) < cfg.min_characters
                      /\ Len(result[n]) + Len(chunk_i) + 2 <= cfg.max_characters
         IN MergeLoop(cfg, chunks, i + 1,
                IF merge
                THEN [result EXCEPT ![n] = @ \o <<"\n", "\n">> \o chunk_i]
                ELSE Append(result, chunk_i))

merge_small_chunks(cfg, chunks) ==
    IF cfg.min_characters = 0 THEN chunks ELSE MergeLoop(cfg, chunks, 1, <<>>)

split_long_section(cfg, section) ==
    IF Len(section) <= cfg.max_characters THEN <<section>>
    ELSE LET st == ParaLoop(cfg, split_paragraphs(section), 1,
                            [chunks |-> <<>>, current |-> <<>>])
             chunks == IF st.current # <<>> THEN Append(st.chunks, st.current)
                       ELSE st.chunks
         IN merge_small_chunks(cfg, chunks)

floor_char_boundary(s, index) ==
    IF index >= Len(s) THEN Len(s)
    ELSE CHOOSE i \in 0..index :
            /\ i = 0 \/ is_char_boundary(s, i)
            /\ \A j \in (i + 1)..index : ~is_char_boundary(s, j)

\* the byte offset in prev at which apply_overlap starts the overlap
OverlapWordStart(cfg, prev) ==
    LET overlap_start ==
            floor_char_boundary(prev,
                IF Len(prev) > cfg.overlap_characters
                THEN Len(prev) - cfg.overlap_characters ELSE 0)
        p == find_whitespace(SliceFrom(prev, overlap_start))
    IN IF p >= 0 THEN overlap_start + p + 1 ELSE overlap_start

\* &prev[word_start..] panics when word_start is inside a character
OverlapPanics(cfg, prev) == ~is_char_boundary(prev, OverlapWordStart(cfg, prev))

OverlapOf(cfg, prev) == SliceFrom(prev, OverlapWordStart(cfg, prev))

\* "overlap is meaningful": !overlap.trim().is_empty() && overlap.len() > 20
OverlapKept(cfg, prev) ==
    LET overlap == OverlapOf(cfg, prev)
    IN trim(overlap) # <<>> /\ Len(overlap) > MinOverlapLen

\* format!("...\n{}\n---\n{}", overlap.trim(), chunk)
OverlapChunk(cfg, prev, chunk_i) ==
    <<".", ".", ".", "\n">> \o trim(OverlapOf(cfg, prev))
        \o <<"\n", "-", "-", "-", "\n">> \o chunk_i

apply_overlap(cfg, chunks) ==
    IF cfg.overlap_characters = 0 \/ Len(chunks) < 2 THEN chunks
    ELSE [i \in 1..Len(chunks) |->
            IF i = 1 THEN chunks[1]
            ELSE IF OverlapKept(cfg, chunks[i - 1])
                 THEN OverlapChunk(cfg, chunks[i - 1], chunks[i])
                 ELSE chunks[i]]

\* whether apply_overlap panics on these chunks
apply_overlap_panics(cfg, chunks) ==
    /\ cfg.overlap_characters # 0
    /\ Len(chunks) >= 2
    /\ \E i \in 2..Len(chunks) : OverlapPanics(cfg, chunks[i - 1])

\* steps 1-3 of chunk: the chunks before the overlap is applied
raw_chunks(cfg, text) ==
    IF trim(text) = <<>> THEN <<>>
    ELSE LET sections == split_sections(text)
             all == Concat([k \in 1..Len(sections) |->
                                split_long_section(cfg, sections[k])])
         IN SelectSeq(all, LAMBDA c : trim(c) # <<>>)

\* Chunker::chunk for MarkdownChunker: [panic, chunks]
chunk(cfg, text) ==
    LET raw == raw_chunks(cfg, text)
    IN IF apply_overlap_panics(cfg, raw)
       THEN [panic |-> TRUE, chunks |-> <<>>]
       ELSE [panic |-> FALSE, chunks |-> apply_overlap(cfg, raw)]

-----------------------------------------------------------------------------
(* MarkdownChunker taken alone: the input is drawn in the initial state and  *)
(* one action applies chunk to it.                                           *)

\* the number of blocks an input text is built from, at most
MaxBlocks == 3

\* the length of a word of the "spaced" block
WordLen == 11

\* the letter of the block at each position, so that blocks can be told apart
Letters == <<"a", "b", "c", "d", "e">>

Rep(b, n) == [i \in 1..n |-> b]

BlockKinds ==
    {"short", "word", "twolines", "header", "fence", "spaced", "blank", "nbsp", "long"}

Block(kind, ch) ==
    CASE kind = "short"    -> Rep(ch, 2)
      [] kind = "word"     -> Rep(ch, 7)
      [] kind = "twolines" -> Rep(ch, 5) \o <<"\n">> \o Rep(ch, 4)
      [] kind = "header"   -> <<"#", " ", ch>>
      [] kind = "fence"    -> Rep(Backtick, 3)
      [] kind = "spaced"   -> Rep(ch, WordLen) \o <<" ">> \o Rep(ch, WordLen)
                                \o <<" ">> \o Rep(ch, WordLen)
      [] kind = "blank"    -> <<" ">>
      [] kind = "nbsp"     -> Rep(ch, 3) \o <<"S0", "S1">> \o Rep(ch, 2 * WordLen)
      [] kind = "long"     -> Rep(ch, 3 * WordLen)

Separators == {<<"\n">>, <<"\n", "\n">>}

RECURSIVE BuildText(_, _, _)
BuildText(kinds, seps, k) ==
    IF k > Len(kinds) THEN <<>>
    ELSE Block(kinds[k], Letters[k])
           \o (IF k < Len(kinds) THEN seps[k] ELSE <<>>)
           \o BuildText(kinds, seps, k + 1)

ChunkConfigs ==
    { [min_characters |-> 4, max_characters |-> 8, overlap_characters |-> 0],
      [min_characters |-> 0, max_characters |-> 8, overlap_characters |-> 0],
      [min_characters |-> 4, max_characters |-> 40, overlap_characters |-> 30],
      DefaultConfig }

InitChunkIdle ==
    /\ cCfg = DefaultConfig /\ cText = <<>> /\ cPhase = "off"
    /\ cRaw = <<>> /\ cOut = [panic |-> FALSE, chunks |-> <<>>]

InitChunk ==
    /\ cCfg \in ChunkConfigs
    /\ \E n \in 0..MaxBlocks :
         \E kinds \in [1..n -> BlockKinds] :
           \E seps \in [1..(IF n = 0 THEN 0 ELSE n - 1) -> Separators] :
              cText = BuildText(kinds, seps, 1)
    /\ cPhase = "in"
    /\ cRaw = <<>>
    /\ cOut = [panic |-> FALSE, chunks |-> <<>>]

\* chunker.chunk(text)
ChunkCall ==
    /\ cPhase = "in"
    /\ cPhase' = "out"
    /\ cRaw' = raw_chunks(cCfg, cText)
    /\ cOut' = chunk(cCfg, cText)
    /\ UNCHANGED <<cCfg, cText>>
    /\ UNCHANGED <<retrieverVars, rrfVars, embedVars, wordVars>>

-----------------------------------------------------------------------------
(* f32 arithmetic of rrf_merge.  Every f32 in [2^-7, 1) is a multiple of     *)
(* 2^-30, so a score is held as the integer number of units of 2^-30 and the *)
(* IEEE round-to-nearest-even of each operation is computed exactly.         *)

F32Unit == 2^30

\* the spacing of f32 values around s (in units of 2^-30): 24 significant bits
RECURSIVE UlpOf(_)
UlpOf(s) == IF s < 2^24 THEN 1 ELSE 2 * UlpOf(s \div 2)

\* a / n rounded to the nearest integer, ties to even
RoundDivEven(a, n) ==
    LET q == a \div n
        r == a % n
    IN IF 2 * r > n THEN q + 1
       ELSE IF 2 * r = n THEN q + (q % 2)
       ELSE q

\* 1.0 / n in f32, for 2 <= n <= 128
F32Recip(n) ==
    LET u == UlpOf(F32Unit \div n)
    IN u * RoundDivEven(F32Unit \div u, n)

\* a + b in f32
F32Add(a, b) ==
    LET u == UlpOf(a + b)
    IN u * RoundDivEven(a + b, u)

-----------------------------------------------------------------------------
(* HybridRetriever::rrf_merge (knowledge/hybrid.rs) *)

\* const K: f32 = 60.0
K == 60

\* Option: None is the empty sequence, Some(x) the sequence of x alone
None == <<>>

Some(x) == <<x>>

\* NewDocument.title of the documents of the model
DocTitle == Some("t")

\* let rrf_score = 1.0 / (K + rank as f32 + 1.0), rank 0-based
rrf_contribution(rank) == F32Recip(K + rank + 1)

NoEntry == [score |-> 0, fts |-> 0, vec |-> 0]

\* scores.entry(doc_id).or_insert((0.0, None, None)); entry.0 += rrf_score;
\* entry.1 = Some(result): the FTS5 loop, from position i on
RECURSIVE AddFtsScores(_, _, _)
AddFtsScores(scores, fts_results, i) ==
    IF i > Len(fts_results) THEN scores
    ELSE LET d == fts_results[i].doc_id
             old == IF d \in DOMAIN scores THEN scores[d] ELSE NoEntry
             new == [old EXCEPT !.score = F32Add(@, rrf_contribution(i - 1)),
                                !.fts = i]
         IN AddFtsScores([x \in (DOMAIN scores) \cup {d} |->
                             IF x = d THEN new ELSE scores[x]],
                         fts_results, i + 1)

\* the same loop over the vector results, entry.2 = Some(result)
RECURSIVE AddVectorScores(_, _, _)
AddVectorScores(scores, vector_results, i) ==
    IF i > Len(vector_results) THEN scores
    ELSE LET d == vector_results[i].doc_id
             old == IF d \in DOMAIN scores THEN scores[d] ELSE NoEntry
             new == [old EXCEPT !.score = F32Add(@, rrf_contribution(i - 1)),
                                !.vec = i]
         IN AddVectorScores([x \in (DOMAIN scores) \cup {d} |->
                                IF x = d THEN new ELSE scores[x]],
                            vector_results, i + 1)

\* the HashMap of rrf_merge after both loops
rrf_scores(fts_results, vector_results) ==
    AddVectorScores(AddFtsScores(<<>>, fts_results, 1), vector_results, 1)

\* KnowledgeStore::get_document(id) on the rows docs
get_document(docs, id) ==
    IF \E r \in docs : r.id = id THEN Some(CHOOSE r \in docs : r.id = id) ELSE None

\* every fused result tagged Hybrid
method_of_AlwaysHybrid(has_fts, has_vec) == "Hybrid"

\* the method of a fused result, from (fts_opt.is_some(), vec_opt.is_some())
method_of(has_fts, has_vec) ==
    CASE has_fts /\ has_vec -> "Hybrid"
      [] has_fts /\ ~has_vec -> "Fts"
      [] ~has_fts /\ has_vec -> "Vector"
      [] OTHER -> "Hybrid"

\* the HybridSearchResult built for one entry of the map
fused_result(docs, fts_results, vector_results, d, e) ==
    LET doc == get_document(docs, d)
    IN [doc_id |-> d,
        url |-> IF doc = None THEN "" ELSE doc[1].url,
        title |-> IF doc = None THEN None ELSE doc[1].title,
        chunk_text |-> IF e.vec = 0 THEN None
                       ELSE Some(vector_results[e.vec].chunk_text),
        snippet |-> IF e.fts = 0 THEN None
                    ELSE Some(fts_results[e.fts].content_snippet),
        rrf_score |-> e.score,
        method |-> method_of(e.fts # 0, e.vec # 0)]

\* the entries in the iteration order of the HashMap, the sort left out
SortedOrders_Unsorted(scores) ==
    LET ids == DOMAIN scores
        n == Cardinality(ids)
    IN {p \in [1..n -> ids] : \A i, j \in 1..n : i # j => p[i] # p[j]}

\* the orders in which the entries can leave the sort: the HashMap is iterated
\* in an arbitrary order and the sort is stable, so entries of equal score
\* come in any order
SortedOrders(scores) ==
    LET ids == DOMAIN scores
        n == Cardinality(ids)
    IN {p \in [1..n -> ids] :
          /\ \A i, j \in 1..n : i # j => p[i] # p[j]
          /\ \A i \in 1..(n - 1) : scores[p[i]].score >= scores[p[i + 1]].score}

\* every list rrf_merge may return
rrf_merge(docs, fts_results, vector_results, limit) ==
    LET scores == rrf_scores(fts_results, vector_results)
    IN {[i \in 1..Min2(limit, Len(p)) |->
            fused_result(docs, fts_results, vector_results, p[i], scores[p[i]])] :
        p \in SortedOrders(scores)}

-----------------------------------------------------------------------------
(* rrf_merge taken alone: the two result lists are drawn in the initial      *)
(* state and one action merges them.                                         *)

\* the document ids the drawn lists range over
MaxRrfDocs == 3

\* the length of a drawn result list, at most
MaxHits == 3

\* the largest limit drawn
MaxRrfLimit == 2

RrfDocIds == 1..MaxRrfDocs

\* the rows of the keyword store during the merge: every id but the last,
\* whose lookup misses
RrfUrls == <<"u1", "u2", "u3", "u4", "u5">>

RrfDocuments ==
    {[id |-> d, url |-> RrfUrls[d], title |-> DocTitle, content |-> <<>>] : d \in 1..(MaxRrfDocs - 1)}

\* the number of positions before i that hold the doc id of position i
EarlierSame(ids, i) == Cardinality({j \in 1..(i - 1) : ids[j] = ids[i]})

\* a keyword result list: each document at most once
FtsLists ==
    UNION {{[i \in 1..n |-> [doc_id |-> ids[i], content_snippet |-> <<"snip", ids[i]>>]] :
              ids \in {f \in [1..n -> RrfDocIds] :
                          \A i, j \in 1..n : i # j => f[i] # f[j]}} :
           n \in 0..MaxHits}

\* a vector result list: one entry per chunk, several chunks of a document allowed
VectorLists ==
    UNION {{[i \in 1..n |-> [doc_id |-> ids[i], chunk_index |-> EarlierSame(ids, i),
                             chunk_text |-> <<"chunk", ids[i], EarlierSame(ids, i)>>]] :
              ids \in [1..n -> RrfDocIds]} :
           n \in 0..MaxHits}

InitRrfIdle ==
    /\ rFts = <<>> /\ rVec = <<>> /\ rLimit = 0 /\ rPhase = "off" /\ rOut = <<>>
    /\ rBm25 = <<>>

InitRrf ==
    /\ rFts \in FtsLists
    /\ rVec \in VectorLists
    /\ rLimit \in 1..MaxRrfLimit
    /\ rPhase = "in"
    /\ rOut = <<>>
    /\ rBm25 = <<>>

\* self.rrf_merge(&fts_results, &vector_results, limit)
RrfMergeCall ==
    /\ rPhase = "in"
    /\ rPhase' = "out"
    /\ rOut' \in rrf_merge(documents, rFts, rVec, rLimit)
    /\ UNCHANGED <<rFts, rVec, rLimit, rBm25>>
    /\ UNCHANGED <<retrieverVars, chunkVars, embedVars, wordVars>>

-----------------------------------------------------------------------------
(* HybridRetriever::search_fts and search_vector taken alone: the backend's  *)
(* hits are drawn in the initial state and one action turns them into        *)
(* results.  A lookup that fails with an error is left out.                  *)

\* the largest magnitude of a drawn bm25 score; the scores are whole and
\* negative, the better hit having the more negative score
MaxBm25 == 3

\* the score lists ORDER BY bm25(documents_fts) can give n hits
Bm25Lists(n) ==
    {b \in [1..n -> {0 - m : m \in 1..MaxBm25}] :
        \A i \in 1..(n - 1) : b[i] <= b[i + 1]}

Abs(x) == IF x < 0 THEN 0 - x ELSE x

\* 1.0 / (1.0 + result.bm25_score.abs()) as f32
normalized_score(bm25_score) == F32Recip(1 + Abs(bm25_score))

\* (url, title) of doc.map(..).unwrap_or_default()
url_title(doc) ==
    IF doc = None THEN [url |-> "", title |-> None]
    ELSE [url |-> doc[1].url, title |-> doc[1].title]

\* search_fts dropping the hits whose document is not found
retriever_search_fts_SkipMissing(docs, hits, scores) ==
    LET found == SelectSeq([i \in 1..Len(hits) |-> i],
                           LAMBDA i : get_document(docs, hits[i].doc_id) # None)
    IN [ok |-> TRUE,
        value |-> [k \in 1..Len(found) |->
            LET i == found[k]
                meta == url_title(get_document(docs, hits[i].doc_id))
            IN [doc_id |-> hits[i].doc_id, url |-> meta.url, title |-> meta.title,
                chunk_text |-> None,
                snippet |-> Some(hits[i].content_snippet),
                rrf_score |-> normalized_score(scores[i]),
                method |-> "Fts"]]]

\* HybridRetriever::search_fts on the hits of the keyword store
retriever_search_fts(docs, hits, scores) ==
    [ok |-> TRUE,
     value |-> [i \in 1..Len(hits) |->
        LET meta == url_title(get_document(docs, hits[i].doc_id))
        IN [doc_id |-> hits[i].doc_id, url |-> meta.url, title |-> meta.title,
            chunk_text |-> None,
            snippet |-> Some(hits[i].content_snippet),
            rrf_score |-> normalized_score(scores[i]),
            method |-> "Fts"]]]

\* HybridRetriever::search_vector on the hits of the vector store; the
\* similarity of a hit is the embedding service's, left opaque
retriever_search_vector(docs, hits) ==
    [ok |-> TRUE,
     value |-> [i \in 1..Len(hits) |->
        LET meta == url_title(get_document(docs, hits[i].doc_id))
        IN [doc_id |-> hits[i].doc_id, url |-> meta.url, title |-> meta.title,
            chunk_text |-> Some(hits[i].chunk_text),
            snippet |-> None,
            rrf_score |-> <<"similarity", i>>,
            method |-> "Vector"]]]

InitSearch ==
    /\ rFts \in FtsLists
    /\ rVec \in VectorLists
    /\ rLimit \in 1..MaxRrfLimit
    /\ rPhase = "in"
    /\ rOut = <<>>
    /\ rBm25 \in Bm25Lists(Len(rFts))

\* self.search_fts(query, limit), the store having returned rFts
SearchFtsCall ==
    LET res == retriever_search_fts(documents, rFts, rBm25)
    IN  /\ rPhase = "in"
        /\ Len(rFts) <= rLimit
        /\ rPhase' = IF res.ok THEN "fts_out" ELSE "fts_err"
        /\ rOut' = res.value
        /\ UNCHANGED <<rFts, rVec, rLimit, rBm25>>
        /\ UNCHANGED <<retrieverVars, chunkVars, embedVars, wordVars>>

\* self.search_vector(query, limit), the vector store having returned rVec
SearchVectorCall ==
    LET res == retriever_search_vector(documents, rVec)
    IN  /\ rPhase = "in"
        /\ Len(rVec) <= rLimit
        /\ rPhase' = IF res.ok THEN "vec_out" ELSE "vec_err"
        /\ rOut' = res.value
        /\ UNCHANGED <<rFts, rVec, rLimit, rBm25>>
        /\ UNCHANGED <<retrieverVars, chunkVars, embedVars, wordVars>>

-----------------------------------------------------------------------------
(* KnowledgeStore (knowledge/store.rs) *)

\* a byte that the FTS5 tokenizer (unicode61) keeps inside a token
IsTokenByte(b) == b \in {"a", "b", "c", "d", "e", "L0", "L1"}

\* the tokens of a text: its maximal runs of token bytes; cur is the run read so far
RECURSIVE TokensFrom(_, _, _)
TokensFrom(s, k, cur) ==
    IF k > Len(s) THEN (IF cur = <<>> THEN {} ELSE {cur})
    ELSE IF IsTokenByte(s[k]) THEN TokensFrom(s, k + 1, Append(cur, s[k]))
    ELSE (IF cur = <<>> THEN {} ELSE {cur}) \cup TokensFrom(s, k + 1, <<>>)

Tokens(s) == TokensFrom(s, 1, <<>>)

\* a byte escape_fts5_query keeps: c.is_alphanumeric() || c == '_' || c == '-'
IsQueryByte(b) == IsTokenByte(b) \/ b \in {"_", "-"}

\* split_whitespace, then the filter on each word; cur is the word read so far
RECURSIVE EscapedWordsFrom(_, _, _)
EscapedWordsFrom(s, k, cur) ==
    IF k > Len(s) THEN (IF cur = <<>> THEN <<>> ELSE <<cur>>)
    ELSE IF IsWhitespaceLead(s[k])
         THEN (IF cur = <<>> THEN <<>> ELSE <<cur>>)
                 \o EscapedWordsFrom(s, k + CharWidth(s[k]), <<>>)
    ELSE EscapedWordsFrom(s, k + 1,
            IF IsQueryByte(s[k]) THEN Append(cur, s[k]) ELSE cur)

\* escape_fts5_query(query): the words that are left, to be joined by " "
escape_fts5_query(query) == EscapedWordsFrom(trim(query), 1, <<>>)

\* documents_fts MATCH ?1 on one indexed row: every word of the query is a token
fts_match(words, content) == \A i \in 1..Len(words) : words[i] \in Tokens(content)

\* store_add_document on a table whose url column is not UNIQUE: the row that
\* holds the url stays beside the new one
store_add_document_NoUnique(docs, idx, sq, url, content) ==
    [documents |-> docs \cup {[id |-> sq + 1, url |-> url, title |-> DocTitle,
                             content |-> content]},
     fts |-> idx \cup {[rowid |-> sq + 1, content |-> content]},
     seq |-> sq + 1,
     id |-> sq + 1]

\* store_add_document as an update in place: the row that holds the url keeps
\* its id, and only a new url takes the next AUTOINCREMENT id
store_add_document_KeepId(docs, idx, sq, url, content) ==
    LET held == {r \in docs : r.url = url}
        id == IF held = {} THEN sq + 1 ELSE (CHOOSE r \in held : TRUE).id
    IN [documents |-> {r \in docs : r.url # url}
                         \cup {[id |-> id, url |-> url, title |-> DocTitle,
                                content |-> content]},
        fts |-> idx \cup {[rowid |-> id, content |-> content]},
        seq |-> IF held = {} THEN sq + 1 ELSE sq,
        id |-> id]

\* INSERT OR REPLACE INTO documents (url, ...): the row holding the url, if any,
\* is deleted and a new row is inserted under the next AUTOINCREMENT id; the
\* trigger documents_ai indexes the new row.  SQLite fires no delete trigger for
\* the row REPLACE removes (recursive_triggers is off), so that row's index
\* entry stays.  [documents, fts, seq, id]
store_add_document(docs, idx, sq, url, content) ==
    [documents |-> {r \in docs : r.url # url}
                      \cup {[id |-> sq + 1, url |-> url, title |-> DocTitle,
                             content |-> content]},
     fts |-> idx \cup {[rowid |-> sq + 1, content |-> content]},
     seq |-> sq + 1,
     id |-> sq + 1]

\* store_delete_document reporting a deleted row whatever the DELETE changed
store_delete_document_AlwaysTrue(docs, idx, id) ==
    LET rows == {r \in docs : r.id = id}
    IN [documents |-> docs \ rows,
        fts |-> idx \ {e \in idx : \E r \in rows : e.rowid = r.id /\ e.content = r.content},
        deleted |-> TRUE]

\* DELETE FROM documents WHERE id = ?1, with the trigger documents_ad.
\* [documents, fts, deleted]
store_delete_document(docs, idx, id) ==
    LET rows == {r \in docs : r.id = id}
    IN [documents |-> docs \ rows,
        fts |-> idx \ {e \in idx : \E r \in rows : e.rowid = r.id /\ e.content = r.content},
        deleted |-> rows # {}]

\* the ids search_fts can return for a query: index rows that match, joined
\* with documents on d.id = documents_fts.rowid
fts_hits(docs, idx, query) ==
    LET words == escape_fts5_query(query)
    IN IF words = <<>> THEN {}
       ELSE {e.rowid : e \in {x \in idx : /\ fts_match(words, x.content)
                                          /\ \E r \in docs : r.id = x.rowid}}

\* the sequences of n distinct elements of S
Arrangements(S, n) ==
    {f \in [1..n -> S] : \A i, j \in 1..n : i # j => f[i] # f[j]}

\* KnowledgeStore::search_fts(query, limit): every list it may return.  The
\* order is that of bm25, which this model leaves open.
search_fts(docs, idx, query, limit) ==
    LET hits == fts_hits(docs, idx, query)
    IN {[i \in 1..Len(p) |-> [doc_id |-> p[i], content_snippet |-> <<"snip", p[i]>>]] :
        p \in Arrangements(hits, Min2(limit, Cardinality(hits)))}

-----------------------------------------------------------------------------
(* LanceVectorStore (knowledge/lance.rs) *)

\* table.add(batches): the rows are appended
insert_batch(vs, entries) == vs \o entries

\* delete_by_doc_id with a filter that matches every row
delete_by_doc_id_All(vs, doc_id) == <<>>

\* table.delete("doc_id = {doc_id}")
delete_by_doc_id(vs, doc_id) == SelectSeq(vs, LAMBDA e : e.doc_id # doc_id)

\* LanceVectorStore::search(query_embedding, limit): every list it may return.
\* The order is by distance between embeddings, which the embedding service
\* decides; the model leaves it open.
vector_search(vs, limit) ==
    {[i \in 1..Len(p) |-> vs[p[i]]] :
        p \in Arrangements(1..Len(vs), Min2(limit, Len(vs)))}

-----------------------------------------------------------------------------
(* HybridRetriever (knowledge/hybrid.rs): the calls, one action per backend  *)
(* call or await point                                                       *)

\* the largest document id the keyword store hands out
MaxDocId == 3

\* the number of rows the vector table holds, at most
MaxVectors == 3

\* the largest limit a search is called with
MaxLimit == 2

Callers == {"c1", "c2"}

\* the callers of the sequential specification: one call at a time
SeqCallers == {"c1"}

Urls == {"u1", "u2"}

TextEmpty == <<>>
TextA == <<"a">>
TextAB == <<"#", " ", "a", "\n", "#", " ", "b">>
TextC == <<"c">>

Contents == {TextEmpty, TextA, TextAB, TextC}

Queries == {<<"a">>, <<"b">>, <<"c">>}

\* self.chunker.chunk(&doc.content) with default_chunker()
ChunksOf == [c \in Contents |-> chunk(DefaultConfig, c).chunks]

Snapshot == [documents |-> documents, fts |-> fts, vectors |-> vectors]

NoSnapshot == [documents |-> {}, fts |-> {}, vectors |-> <<>>]

IdleTask ==
    [pc |-> "idle", op |-> "none", url |-> "", content |-> <<>>, doc_id |-> 0,
     chunks |-> <<>>, entries |-> <<>>, sent |-> 0,
     query |-> <<>>, limit |-> 0, fts_results |-> <<>>, vector_results |-> <<>>,
     ok |-> TRUE, failed_at |-> "", value |-> None, pre |-> NoSnapshot]

\* the call has returned: Ok(value), or Err from the step failed_at (value None)
Returned(task, ok, failed_at, value) ==
    [task EXCEPT !.pc = "done", !.ok = ok, !.failed_at = failed_at, !.value = value]

InitRetriever ==
    /\ documents = {}
    /\ fts = {}
    /\ seq = 0
    /\ vectors = <<>>
    /\ tasks = [t \in Callers |-> IdleTask]
    /\ lastAdd = None

\* add_document without the return on no chunks: content that gives no chunk
\* is embedded whole
AddDocumentStart_EmbedContent(t, url, content) ==
    /\ tasks[t].pc = "idle"
    /\ seq < MaxDocId
    /\ Len(vectors) + 1 <= MaxVectors
    /\ LET task == [IdleTask EXCEPT !.op = "add", !.url = url, !.content = content,
                                    !.pre = Snapshot]
           st == store_add_document(documents, fts, seq, url, content)
           chunks == IF ChunksOf[content] = <<>> THEN <<content>> ELSE ChunksOf[content]
       IN /\ documents' = st.documents
          /\ fts' = st.fts
          /\ seq' = st.seq
          /\ tasks' = [tasks EXCEPT ![t] =
                [task EXCEPT !.pc = "embed", !.doc_id = st.id, !.chunks = chunks]]
          /\ lastAdd' = None
    /\ UNCHANGED vectors
    /\ UNCHANGED <<chunkVars, rrfVars, embedVars, wordVars>>

\* add_document, step 1 and 2: self.store.add_document(doc.clone())?, then
\* chunks = self.chunker.chunk(&doc.content) and the return on no chunks
AddDocumentStart(t, url, content) ==
    /\ tasks[t].pc = "idle"
    /\ seq < MaxDocId
    /\ Len(vectors) + Len(ChunksOf[content]) <= MaxVectors
    /\ \E store_ok \in BOOLEAN :
         LET task == [IdleTask EXCEPT !.op = "add", !.url = url, !.content = content,
                                      !.pre = Snapshot]
             st == store_add_document(documents, fts, seq, url, content)
             chunks == ChunksOf[content]
         IN IF ~store_ok
            THEN /\ tasks' = [tasks EXCEPT ![t] = Returned(task, FALSE, "store", None)]
                 /\ lastAdd' = None
                 /\ UNCHANGED <<documents, fts, seq>>
            ELSE /\ documents' = st.documents
                 /\ fts' = st.fts
                 /\ seq' = st.seq
                 /\ IF chunks = <<>>
                    THEN /\ tasks' = [tasks EXCEPT ![t] =
                                Returned([task EXCEPT !.doc_id = st.id], TRUE, "", st.id)]
                         /\ lastAdd' = Some([doc_id |-> st.id, content |-> content])
                    ELSE /\ tasks' = [tasks EXCEPT ![t] =
                                [task EXCEPT !.pc = "embed", !.doc_id = st.id,
                                             !.chunks = chunks]]
                         /\ lastAdd' = None
    /\ UNCHANGED vectors
    /\ UNCHANGED <<chunkVars, rrfVars, embedVars, wordVars>>

\* EmbedChunk writing each vector to the table as soon as it is embedded,
\* instead of collecting the entries for one batch
EmbedChunk_InsertEach(t) ==
    LET task == tasks[t]
        i == Len(task.entries)
        entry == [doc_id |-> task.doc_id, chunk_index |-> i,
                  chunk_text |-> task.chunks[i + 1]]
    IN /\ task.pc = "embed"
       /\ i < Len(task.chunks)
       /\ \E embed_ok \in BOOLEAN :
            LET sent == [task EXCEPT !.sent = @ + 1]
            IN IF embed_ok
               THEN /\ tasks' = [tasks EXCEPT ![t] =
                                    [sent EXCEPT !.entries = Append(@, entry)]]
                    /\ vectors' = Append(vectors, entry)
               ELSE /\ tasks' = [tasks EXCEPT ![t] = Returned(sent, FALSE, "embed", None)]
                    /\ UNCHANGED vectors
       /\ UNCHANGED <<documents, fts, seq, lastAdd>>
       /\ UNCHANGED <<chunkVars, rrfVars, embedVars, wordVars>>

\* add_document, step 3: self.embedder.embed(chunk).await? for the next chunk,
\* then entries.push(VectorEntry {..})
EmbedChunk(t) ==
    LET task == tasks[t]
        i == Len(task.entries)
    IN /\ task.pc = "embed"
       /\ i < Len(task.chunks)
       /\ \E embed_ok \in BOOLEAN :
            LET sent == [task EXCEPT !.sent = @ + 1]
            IN tasks' = [tasks EXCEPT ![t] =
                  IF embed_ok
                  THEN [sent EXCEPT !.entries = Append(@,
                            [doc_id |-> task.doc_id, chunk_index |-> i,
                             chunk_text |-> task.chunks[i + 1]])]
                  ELSE Returned(sent, FALSE, "embed", None)]
       /\ UNCHANGED <<documents, fts, seq, vectors, lastAdd>>
       /\ UNCHANGED <<chunkVars, rrfVars, embedVars, wordVars>>

\* add_document, step 4: self.vector.insert_batch(&entries).await?; Ok(doc_id)
InsertBatch(t) ==
    LET task == tasks[t]
    IN /\ task.pc = "embed"
       /\ Len(task.entries) = Len(task.chunks)
       /\ \E insert_ok \in BOOLEAN :
            IF insert_ok
            THEN /\ vectors' = insert_batch(vectors, task.entries)
                 /\ tasks' = [tasks EXCEPT ![t] = Returned(task, TRUE, "", task.doc_id)]
                 /\ lastAdd' = Some([doc_id |-> task.doc_id, content |-> task.content])
            ELSE /\ tasks' = [tasks EXCEPT ![t] = Returned(task, FALSE, "insert", None)]
                 /\ UNCHANGED <<vectors, lastAdd>>
       /\ UNCHANGED <<documents, fts, seq>>
       /\ UNCHANGED <<chunkVars, rrfVars, embedVars, wordVars>>

\* delete_document with its two statements in the other order: the first one
\* deletes the keyword row
DeleteDocumentVectors_RowFirst(t, doc_id) ==
    /\ tasks[t].pc = "idle"
    /\ LET task == [IdleTask EXCEPT !.op = "delete", !.doc_id = doc_id,
                                    !.pre = Snapshot]
           st == store_delete_document(documents, fts, doc_id)
       IN /\ documents' = st.documents
          /\ fts' = st.fts
          /\ tasks' = [tasks EXCEPT ![t] = [task EXCEPT !.pc = "delete_row"]]
    /\ lastAdd' = None
    /\ UNCHANGED <<seq, vectors>>
    /\ UNCHANGED <<chunkVars, rrfVars, embedVars, wordVars>>

\* delete_document, first statement: self.vector.delete_by_doc_id(doc_id).await?
\* delete_by_doc_id fails before its table.delete, or after it (in the count
\* that follows), or not at all
DeleteDocumentVectors(t, doc_id) ==
    /\ tasks[t].pc = "idle"
    /\ \E outcome \in {"ok", "failed_before", "failed_after"} :
         LET task == [IdleTask EXCEPT !.op = "delete", !.doc_id = doc_id,
                                      !.pre = Snapshot]
         IN /\ vectors' = IF outcome = "failed_before" THEN vectors
                          ELSE delete_by_doc_id(vectors, doc_id)
            /\ tasks' = [tasks EXCEPT ![t] =
                  IF outcome = "ok" THEN [task EXCEPT !.pc = "delete_row"]
                  ELSE Returned(task, FALSE, "vector_delete", None)]
    /\ lastAdd' = None
    /\ UNCHANGED <<documents, fts, seq>>
    /\ UNCHANGED <<chunkVars, rrfVars, embedVars, wordVars>>

\* delete_document, second statement: self.store.delete_document(doc_id)
DeleteDocumentRow(t) ==
    LET task == tasks[t]
        st == store_delete_document(documents, fts, task.doc_id)
    IN /\ task.pc = "delete_row"
       /\ \E store_ok \in BOOLEAN :
            IF store_ok
            THEN /\ documents' = st.documents
                 /\ fts' = st.fts
                 /\ tasks' = [tasks EXCEPT ![t] = Returned(task, TRUE, "", st.deleted)]
            ELSE /\ tasks' = [tasks EXCEPT ![t] = Returned(task, FALSE, "store", None)]
                 /\ UNCHANGED <<documents, fts>>
       /\ UNCHANGED <<seq, vectors, lastAdd>>
       /\ UNCHANGED <<chunkVars, rrfVars, embedVars, wordVars>>

\* search, steps 1 and 2: self.store.search_fts(query, limit * 2)?, the
\* embedding of the query, self.vector.search(&query_embedding, limit * 2)
SearchBackends(t, query, limit) ==
    /\ tasks[t].pc = "idle"
    /\ LET task == [IdleTask EXCEPT !.op = "search", !.query = query, !.limit = limit,
                                    !.pre = Snapshot]
       IN \/ \E failed_at \in {"store", "embed", "vector_search"} :
               tasks' = [tasks EXCEPT ![t] = Returned(task, FALSE, failed_at, None)]
          \/ \E fr \in search_fts(documents, fts, query, limit * 2) :
               \E vr \in vector_search(vectors, limit * 2) :
                  tasks' = [tasks EXCEPT ![t] =
                      [task EXCEPT !.pc = "merge", !.fts_results = fr,
                                   !.vector_results = vr]]
    /\ UNCHANGED <<documents, fts, seq, vectors, lastAdd>>
    /\ UNCHANGED <<chunkVars, rrfVars, embedVars, wordVars>>

\* search, step 3: Ok(self.rrf_merge(&fts_results, &vector_results, limit))
SearchMerge(t) ==
    LET task == tasks[t]
    IN /\ task.pc = "merge"
       /\ \E merged \in rrf_merge(documents, task.fts_results, task.vector_results,
                                  task.limit) :
            tasks' = [tasks EXCEPT ![t] = Returned(task, TRUE, "", merged)]
       /\ UNCHANGED <<documents, fts, seq, vectors, lastAdd>>
       /\ UNCHANGED <<chunkVars, rrfVars, embedVars, wordVars>>

\* the caller takes the result; it is free to make its next call
Return(t) ==
    /\ tasks[t].pc = "done"
    /\ tasks' = [tasks EXCEPT ![t] = IdleTask]
    /\ UNCHANGED <<documents, fts, seq, vectors, lastAdd>>
    /\ UNCHANGED <<chunkVars, rrfVars, embedVars, wordVars>>

CallerNext(t) ==
    \/ \E url \in Urls, content \in Contents : AddDocumentStart(t, url, content)
    \/ EmbedChunk(t)
    \/ InsertBatch(t)
    \/ \E doc_id \in 1..MaxDocId : DeleteDocumentVectors(t, doc_id)
    \/ DeleteDocumentRow(t)
    \/ \E query \in Queries, limit \in 1..MaxLimit : SearchBackends(t, query, limit)
    \/ SearchMerge(t)
    \/ Return(t)

-----------------------------------------------------------------------------
(* embedding/mod.rs: the Gemini client's rate limiter and retry loop *)

RATE_LIMIT_RPM == 60
\* Duration::from_secs(60), in milliseconds
RATE_LIMIT_WINDOW == 60000
MIN_DELAY_MS == 1000
MAX_RETRIES == 3
INITIAL_BACKOFF_MS == 2000
DEFAULT_DIMENSION == 768

\* the dimension of the client made by GeminiEmbedding::new
Dimension == DEFAULT_DIMENSION

\* with one caller the clock advances by the minimum delay at a time and
\* runs long enough for every backoff; with concurrent callers it advances
\* by half the minimum delay and runs long enough for the first backoff
MaxTicks == 15
TickMs == MIN_DELAY_MS
MaxParTicks == 6
ParTickMs == MIN_DELAY_MS \div 2

EmbedCallers == {"e1", "e2"}
SeqEmbedCallers == {"e1"}
\* embed calls on non-blank text in one run
MaxCalls == 3
\* upstream attempts admitted in one run
MaxAttempts == 4

RECURSIVE Pow2(_)
Pow2(n) == IF n = 0 THEN 1 ELSE 2 * Pow2(n - 1)

\* what the upstream may do with one request: the send fails, the body
\* cannot be read, a success status with a body that parses or not, a 429,
\* any other status
Outcomes == {"send_err", "body_err", "ok", "bad_json", "429", "other"}

\* RateLimiter::new
RateLimiter_new(max_requests, window) ==
    [requests |-> <<>>, max_requests |-> max_requests, window |-> window,
     min_delay |-> MIN_DELAY_MS, last_request |-> None]

\* Vec::retain(|t| now.duration_since(t) < window)
Retain(requests, now, window) ==
    SelectSeq(requests, LAMBDA t : now - t < window)

IdleEmbed ==
    [pc |-> "idle", blank |-> FALSE, attempt |-> 0, hist |-> <<>>,
     sleeps |-> <<>>, admits |-> 0, wake |-> 0, result |-> None,
     vector |-> <<>>, calls |-> 0, first_start |-> None]

\* GeminiEmbedding::with_dimension
InitEmbed ==
    /\ eNow = 0
    /\ eLimiter = RateLimiter_new(RATE_LIMIT_RPM, RATE_LIMIT_WINDOW)
    /\ eLock = None
    /\ eTasks = [t \in EmbedCallers |-> IdleEmbed]
    /\ eAdmitted = <<>>

\* the retry arms' test, attempt < MAX_RETRIES
ShouldRetry(attempt) == attempt < MAX_RETRIES

\* the loop over the exclusive range 0..MAX_RETRIES
LoopHasNext_Exclusive(attempt) == attempt + 1 < MAX_RETRIES

\* for attempt in 0..=MAX_RETRIES: is there an iteration after this one
LoopHasNext(attempt) == attempt + 1 <= MAX_RETRIES

\* INITIAL_BACKOFF_MS * 2u64.pow(attempt)
Backoff(attempt) == INITIAL_BACKOFF_MS * Pow2(attempt)

\* vec![0.0; dimension]
ZeroVector(dimension) == [i \in 1..dimension |-> 0]

\* embed_response.embedding.values, whatever the upstream sent
UpstreamValues == <<1, 2>>

\* the call returns: result is "ok", "zeros" or "error"
EmbedFinish(e, result) ==
    [e EXCEPT !.pc = "done", !.result = Some(result), !.wake = 0,
              !.vector = CASE result = "zeros" -> ZeroVector(Dimension)
                           [] result = "ok" -> UpstreamValues
                           [] OTHER -> <<>>]

\* the end of one iteration of the retry loop
LoopNext(e) ==
    IF LoopHasNext(e.attempt)
    THEN [e EXCEPT !.pc = "lock", !.attempt = e.attempt + 1]
    ELSE EmbedFinish(e, "error")

\* tokio::time::sleep(backoff) in a retry arm
BackoffSleep(e) ==
    [e EXCEPT !.pc = "backoff", !.wake = eNow + Backoff(e.attempt),
              !.sleeps = Append(e.sleeps, Backoff(e.attempt))]

RECURSIVE CallsOf(_)
CallsOf(callers) ==
    IF callers = {} THEN 0
    ELSE LET t == CHOOSE c \in callers : TRUE
         IN  eTasks[t].calls + CallsOf(callers \ {t})

\* embed sending blank text through the limiter and to the upstream
EmbedStart_NoShortCut(t, blank) ==
    LET e == eTasks[t]
    IN  /\ e.pc = "idle"
        /\ CallsOf(EmbedCallers) < MaxCalls
        /\ eTasks' = [eTasks EXCEPT ![t] =
               [e EXCEPT !.pc = "lock", !.blank = blank, !.calls = e.calls + 1,
                         !.first_start = IF e.first_start = None
                                         THEN Some(eNow) ELSE e.first_start]]
        /\ UNCHANGED <<eNow, eLimiter, eLock, eAdmitted>>
        /\ UNCHANGED <<retrieverVars, chunkVars, rrfVars, wordVars>>

\* embed is entered; blank text is answered with the zero vector
EmbedStart(t, blank) ==
    LET e == eTasks[t]
    IN  /\ e.pc = "idle"
        /\ blank \/ CallsOf(EmbedCallers) < MaxCalls
        /\ eTasks' = [eTasks EXCEPT ![t] =
               IF blank
               THEN EmbedFinish([e EXCEPT !.blank = TRUE], "zeros")
               ELSE [e EXCEPT !.pc = "lock", !.calls = e.calls + 1,
                         !.first_start = IF e.first_start = None
                                         THEN Some(eNow) ELSE e.first_start]]
        /\ UNCHANGED <<eNow, eLimiter, eLock, eAdmitted>>
        /\ UNCHANGED <<retrieverVars, chunkVars, rrfVars, wordVars>>

\* self.rate_limiter.lock().await
EmbedLock(t) ==
    /\ eTasks[t].pc = "lock"
    /\ eLock = None
    /\ Len(eAdmitted) < MaxAttempts
    /\ eLock' = Some(t)
    /\ eTasks' = [eTasks EXCEPT ![t].pc = "acquire"]
    /\ UNCHANGED <<eNow, eLimiter, eAdmitted>>
    /\ UNCHANGED <<retrieverVars, chunkVars, rrfVars, wordVars>>

\* acquire without its step 1
AcquireMinDelay_NoWait(t) ==
    /\ eTasks[t].pc = "acquire"
    /\ eTasks' = [eTasks EXCEPT ![t].pc = "window"]
    /\ UNCHANGED <<eNow, eLimiter, eLock, eAdmitted>>
    /\ UNCHANGED <<retrieverVars, chunkVars, rrfVars, wordVars>>

\* acquire, step 1: sleep out the rest of the minimum delay
AcquireMinDelay(t) ==
    LET e == eTasks[t]
        last == eLimiter.last_request
        elapsed == eNow - last[1]
    IN  /\ e.pc = "acquire"
        /\ eTasks' = [eTasks EXCEPT ![t] =
               IF last # None /\ elapsed < eLimiter.min_delay
               THEN [e EXCEPT !.pc = "pace_sleep",
                              !.wake = eNow + (eLimiter.min_delay - elapsed)]
               ELSE [e EXCEPT !.pc = "window"]]
        /\ UNCHANGED <<eNow, eLimiter, eLock, eAdmitted>>
        /\ UNCHANGED <<retrieverVars, chunkVars, rrfVars, wordVars>>

\* acquire, steps 2 and 3: prune, and sleep if the window is full
AcquireWindow(t) ==
    LET e == eTasks[t]
        kept == Retain(eLimiter.requests, eNow, eLimiter.window)
        full == Len(kept) >= eLimiter.max_requests /\ kept # <<>>
        wait_time == eLimiter.window - (eNow - kept[1])
    IN  /\ e.pc = "window"
        /\ eLimiter' = [eLimiter EXCEPT !.requests = kept]
        /\ eTasks' = [eTasks EXCEPT ![t] =
               IF full /\ wait_time # 0
               THEN [e EXCEPT !.pc = "window_sleep", !.wake = eNow + wait_time]
               ELSE [e EXCEPT !.pc = "record"]]
        /\ UNCHANGED <<eNow, eLock, eAdmitted>>
        /\ UNCHANGED <<retrieverVars, chunkVars, rrfVars, wordVars>>

\* acquire, step 4, with the mutex kept over the HTTP call
AcquireRecord_HoldLock(t) ==
    /\ eTasks[t].pc = "record"
    /\ eLimiter' = [eLimiter EXCEPT !.requests = Append(@, eNow),
                                    !.last_request = Some(eNow)]
    /\ eAdmitted' = Append(eAdmitted, eNow)
    /\ eTasks' = [eTasks EXCEPT ![t].pc = "send",
                                ![t].admits = eTasks[t].admits + 1]
    /\ UNCHANGED <<eNow, eLock>>
    /\ UNCHANGED <<retrieverVars, chunkVars, rrfVars, wordVars>>

\* acquire, step 4, and the end of the block that holds the mutex
AcquireRecord(t) ==
    /\ eTasks[t].pc = "record"
    /\ eLimiter' = [eLimiter EXCEPT !.requests = Append(@, eNow),
                                    !.last_request = Some(eNow)]
    /\ eAdmitted' = Append(eAdmitted, eNow)
    /\ eLock' = None
    /\ eTasks' = [eTasks EXCEPT ![t].pc = "send",
                                ![t].admits = eTasks[t].admits + 1]
    /\ UNCHANGED eNow
    /\ UNCHANGED <<retrieverVars, chunkVars, rrfVars, wordVars>>

\* embed retrying on every non-success status
Upstream_RetryOther(t, outcome) ==
    LET e == eTasks[t]
        h == [e EXCEPT !.hist = Append(e.hist, outcome)]
    IN  /\ e.pc = "send"
        /\ eTasks' = [eTasks EXCEPT ![t] =
               CASE outcome = "send_err" ->
                        IF ShouldRetry(e.attempt) THEN BackoffSleep(h)
                        ELSE EmbedFinish(h, "error")
                 [] outcome = "body_err" -> EmbedFinish(h, "error")
                 [] outcome = "ok" -> EmbedFinish(h, "ok")
                 [] outcome = "bad_json" -> EmbedFinish(h, "error")
                 [] OTHER ->
                        IF ShouldRetry(e.attempt) THEN BackoffSleep(h)
                        ELSE LoopNext(h)]
        /\ UNCHANGED <<eNow, eLimiter, eLock, eAdmitted>>
        /\ UNCHANGED <<retrieverVars, chunkVars, rrfVars, wordVars>>

\* the HTTP call and what embed makes of its outcome
Upstream(t, outcome) ==
    LET e == eTasks[t]
        h == [e EXCEPT !.hist = Append(e.hist, outcome)]
    IN  /\ e.pc = "send"
        /\ eTasks' = [eTasks EXCEPT ![t] =
               CASE outcome = "send_err" ->
                        IF ShouldRetry(e.attempt) THEN BackoffSleep(h)
                        ELSE EmbedFinish(h, "error")
                 [] outcome = "body_err" -> EmbedFinish(h, "error")
                 [] outcome = "ok" -> EmbedFinish(h, "ok")
                 [] outcome = "bad_json" -> EmbedFinish(h, "error")
                 [] outcome = "429" ->
                        IF ShouldRetry(e.attempt) THEN BackoffSleep(h)
                        ELSE LoopNext(h)
                 [] OTHER -> EmbedFinish(h, "error")]
        /\ UNCHANGED <<eNow, eLimiter, eLock, eAdmitted>>
        /\ UNCHANGED <<retrieverVars, chunkVars, rrfVars, wordVars>>

\* the sleeps completing, with no pruning after the sleep of step 3
Wake_NoPrune(t) ==
    LET e == eTasks[t]
    IN  /\ e.pc \in {"pace_sleep", "window_sleep", "backoff"}
        /\ eNow >= e.wake
        /\ eTasks' = [eTasks EXCEPT ![t] =
               CASE e.pc = "pace_sleep" -> [e EXCEPT !.pc = "window", !.wake = 0]
                 [] e.pc = "window_sleep" -> [e EXCEPT !.pc = "record", !.wake = 0]
                 [] OTHER -> LoopNext([e EXCEPT !.wake = 0])]
        /\ UNCHANGED <<eNow, eLimiter, eLock, eAdmitted>>
        /\ UNCHANGED <<retrieverVars, chunkVars, rrfVars, wordVars>>

\* a tokio::time::sleep completes, no earlier than its deadline
Wake(t) ==
    LET e == eTasks[t]
    IN  /\ e.pc \in {"pace_sleep", "window_sleep", "backoff"}
        /\ eNow >= e.wake
        /\ eTasks' = [eTasks EXCEPT ![t] =
               CASE e.pc = "pace_sleep" -> [e EXCEPT !.pc = "window", !.wake = 0]
                 [] e.pc = "window_sleep" -> [e EXCEPT !.pc = "record", !.wake = 0]
                 [] OTHER -> LoopNext([e EXCEPT !.wake = 0])]
        /\ eLimiter' = IF e.pc = "window_sleep"
                       THEN [eLimiter EXCEPT !.requests =
                                Retain(@, eNow, eLimiter.window)]
                       ELSE eLimiter
        /\ UNCHANGED <<eNow, eLock, eAdmitted>>
        /\ UNCHANGED <<retrieverVars, chunkVars, rrfVars, wordVars>>

\* the caller takes the result of embed; the call's locals are gone
EmbedReturn(t) ==
    LET e == eTasks[t]
    IN  /\ e.pc = "done"
        /\ eTasks' = [eTasks EXCEPT ![t] =
               [IdleEmbed EXCEPT !.first_start = e.first_start,
                                 !.calls = e.calls]]
        /\ UNCHANGED <<eNow, eLimiter, eLock, eAdmitted>>
        /\ UNCHANGED <<retrieverVars, chunkVars, rrfVars, wordVars>>

\* time passes
Tick(step, ticks) ==
    /\ eNow + step <= ticks * step
    /\ eNow' = eNow + step
    /\ UNCHANGED <<eLimiter, eLock, eTasks, eAdmitted>>
    /\ UNCHANGED <<retrieverVars, chunkVars, rrfVars, wordVars>>

-----------------------------------------------------------------------------
(* vector::chunk_text (knowledge/vector.rs), the word-based chunker, taken    *)
(* alone: the arguments are drawn in the initial state, one action makes the *)
(* call and one action makes a pass of its while loop.  A usize is held as   *)
(* an integer n: n >= 0 stands for n, and n < 0 stands for 2^64 + n, so that *)
(* the wrapping sum and difference of two held values are their integer sum  *)
(* and difference.                                                           *)

MaxTextLen == 5
MaxChunkSize == 2
MaxOverlap == 3
\* the passes of the loop that are followed
MaxChunks == 4

TextBytes == {"a", "b", " "}

RECURSIVE TextsOfLen(_)
TextsOfLen(n) ==
    IF n = 0 THEN {<<>>}
    ELSE {Append(s, b) : s \in TextsOfLen(n - 1), b \in TextBytes}

ChunkTexts == UNION {TextsOfLen(n) : n \in 0..MaxTextLen}

\* overflow checks on (the dev profile) or off (the release profile)
Builds == {"debug", "release"}

\* text.split_whitespace().collect(); cur is the word read so far
RECURSIVE SplitWhitespaceFrom(_, _, _)
SplitWhitespaceFrom(s, k, cur) ==
    IF k > Len(s) THEN (IF cur = <<>> THEN <<>> ELSE <<cur>>)
    ELSE IF IsWhitespaceLead(s[k])
         THEN (IF cur = <<>> THEN <<>> ELSE <<cur>>)
                 \o SplitWhitespaceFrom(s, k + CharWidth(s[k]), <<>>)
    ELSE SplitWhitespaceFrom(s, k + 1, Append(cur, s[k]))

split_whitespace(s) == SplitWhitespaceFrom(s, 1, <<>>)

\* words.join(" ")
RECURSIVE join(_)
join(words) ==
    IF words = <<>> THEN <<>>
    ELSE IF Len(words) = 1 THEN words[1]
    ELSE words[1] \o <<" ">> \o join(Tail(words))

\* a < b on usize, for a held value a and a length b
UsizeLt(a, b) == a >= 0 /\ a < b

InitWordIdle ==
    /\ wText = <<>> /\ wChunkSize = 1 /\ wOverlap = 0 /\ wBuild = "release"
    /\ wPhase = "done" /\ wStart = 0 /\ wChunks = <<>>

InitChunkText ==
    /\ wText \in ChunkTexts
    /\ wChunkSize \in 1..MaxChunkSize
    /\ wOverlap \in 0..MaxOverlap
    /\ wBuild \in Builds
    /\ wPhase = "call" /\ wStart = 0 /\ wChunks = <<>>

\* chunk_text up to its loop: the two early returns, then start = 0
ChunkTextCall ==
    /\ wPhase = "call"
    /\ LET words == split_whitespace(wText)
       IN IF words = <<>>
          THEN wPhase' = "done" /\ wChunks' = <<>>
          ELSE IF Len(words) <= wChunkSize
          THEN wPhase' = "done" /\ wChunks' = <<wText>>
          ELSE wPhase' = "loop" /\ wChunks' = <<>>
    /\ wStart' = 0
    /\ UNCHANGED <<wText, wChunkSize, wOverlap, wBuild>>
    /\ UNCHANGED <<retrieverVars, chunkVars, rrfVars, embedVars>>

\* one pass of the while loop, with the test of the next pass: push
\* words[start..end], break at the end of the words, else
\* start += chunk_size - overlap.  The difference overflows when
\* overlap > chunk_size: a panic with overflow checks on, a wrapped value
\* with them off (and then the sum wraps too).
ChunkTextPass ==
    /\ wPhase = "loop"
    /\ Len(wChunks) < MaxChunks
    /\ LET words == split_whitespace(wText)
           end == Min2(wStart + wChunkSize, Len(words))
           joined == join(SubSeq(words, wStart + 1, end))
           next == wStart + (wChunkSize - wOverlap)
       IN /\ wChunks' = Append(wChunks, joined)
          /\ IF end >= Len(words)
             THEN wPhase' = "done" /\ wStart' = wStart
             ELSE IF wBuild = "debug" /\ wOverlap > wChunkSize
             THEN wPhase' = "panic" /\ wStart' = wStart
             ELSE /\ wStart' = next
                  /\ wPhase' = IF UsizeLt(next, Len(words)) THEN "loop" ELSE "done"
    /\ UNCHANGED <<wText, wChunkSize, wOverlap, wBuild>>
    /\ UNCHANGED <<retrieverVars, chunkVars, rrfVars, embedVars>>

-----------------------------------------------------------------------------
(* Specifications *)

\* the retriever with one caller, whose calls are made one after the other
Init == InitRetriever /\ InitChunkIdle /\ InitRrfIdle /\ InitEmbed /\ InitWordIdle

Next == \E t \in SeqCallers : CallerNext(t)

Spec == Init /\ [][Next]_vars

\* add_document and delete_document calls of two callers on one retriever,
\* interleaved at their await points; every add_document takes a url that no
\* earlier call has stored
FreshUrls == <<"u1", "u2", "u3", "u4", "u5">>

\* the number of add_document calls that reach the store
MaxParAdds == 2

\* contents of one chunk and of two chunks
ParContents == {TextA, TextAB}

\* add_document of the next fresh url
AddFreshDocument(t, content) ==
    /\ seq < MaxParAdds
    /\ AddDocumentStart(t, FreshUrls[seq + 1], content)

ParCallerNext(t) ==
    \/ \E content \in ParContents : AddFreshDocument(t, content)
    \/ EmbedChunk(t)
    \/ InsertBatch(t)
    \/ \E doc_id \in 1..MaxParAdds : DeleteDocumentVectors(t, doc_id)
    \/ DeleteDocumentRow(t)
    \/ Return(t)

NextPar == \E t \in Callers : ParCallerNext(t)

SpecPar == Init /\ [][NextPar]_vars

\* chunk_text on every drawn text, chunk_size and overlap; the call runs on
\* as long as it has a step to take
InitChunkTextSpec ==
    InitRetriever /\ InitChunkIdle /\ InitRrfIdle /\ InitEmbed /\ InitChunkText

NextChunkText == ChunkTextCall \/ ChunkTextPass

SpecChunkText ==
    InitChunkTextSpec /\ [][NextChunkText]_vars /\ WF_vars(NextChunkText)

\* the chunker on every drawn text and configuration
InitChunkSpec == InitRetriever /\ InitChunk /\ InitRrfIdle /\ InitEmbed /\ InitWordIdle

NextChunk == ChunkCall

SpecChunk == InitChunkSpec /\ [][NextChunk]_vars

\* rrf_merge on every drawn pair of result lists, over a store whose ids
\* 1..MaxRrfDocs were issued and whose last row is gone
InitRrfSpec ==
    /\ documents = RrfDocuments
    /\ fts = {[rowid |-> r.id, content |-> r.content] : r \in RrfDocuments}
    /\ seq = MaxRrfDocs
    /\ vectors = <<>>
    /\ tasks = [t \in Callers |-> IdleTask] /\ lastAdd = None
    /\ InitChunkIdle /\ InitRrf /\ InitEmbed /\ InitWordIdle

NextRrf == RrfMergeCall

SpecRrf == InitRrfSpec /\ [][NextRrf]_vars

\* search, search_fts and search_vector turning drawn hits into results,
\* over the same store
InitSearchSpec ==
    /\ documents = RrfDocuments
    /\ fts = {[rowid |-> r.id, content |-> r.content] : r \in RrfDocuments}
    /\ seq = MaxRrfDocs
    /\ vectors = <<>>
    /\ tasks = [t \in Callers |-> IdleTask] /\ lastAdd = None
    /\ InitChunkIdle /\ InitSearch /\ InitEmbed /\ InitWordIdle

NextSearch == RrfMergeCall \/ SearchFtsCall \/ SearchVectorCall

SpecSearch == InitSearchSpec /\ [][NextSearch]_vars

EmbedCallerNext(t) ==
    \/ \E blank \in BOOLEAN : EmbedStart(t, blank)
    \/ EmbedLock(t)
    \/ AcquireMinDelay(t)
    \/ AcquireWindow(t)
    \/ AcquireRecord(t)
    \/ \E outcome \in Outcomes : Upstream(t, outcome)
    \/ Wake(t)
    \/ EmbedReturn(t)

\* the embedding client with one caller, whose calls are made one after
\* the other, and a clock
InitEmbedSpec == InitRetriever /\ InitChunkIdle /\ InitRrfIdle /\ InitEmbed /\ InitWordIdle

NextEmbed ==
    \/ \E t \in SeqEmbedCallers : EmbedCallerNext(t)
    \/ Tick(TickMs, MaxTicks)

SpecEmbed == InitEmbedSpec /\ [][NextEmbed]_vars

\* the embedding client shared by concurrent callers
NextEmbedPar ==
    \/ \E t \in EmbedCallers : EmbedCallerNext(t)
    \/ Tick(ParTickMs, MaxParTicks)

SpecEmbedPar == InitEmbedSpec /\ [][NextEmbedPar]_vars

\* RateLimiter taken alone: RateLimiter::new on the client's arguments and
\* on arguments small enough for the window to fill, one caller
SmallMaxRequests == 2
SmallWindowTicks == 4
MaxLimiterTicks == 6

LimiterArgs ==
    {<<RATE_LIMIT_RPM, RATE_LIMIT_WINDOW>>,
     <<SmallMaxRequests, SmallWindowTicks * TickMs>>}

InitLimiterSpec ==
    /\ InitRetriever /\ InitChunkIdle /\ InitRrfIdle /\ InitWordIdle
    /\ eNow = 0
    /\ eLimiter \in {RateLimiter_new(a[1], a[2]) : a \in LimiterArgs}
    /\ eLock = None
    /\ eTasks = [t \in EmbedCallers |-> IdleEmbed]
    /\ eAdmitted = <<>>

NextLimiter ==
    \/ \E t \in SeqEmbedCallers : EmbedCallerNext(t)
    \/ Tick(TickMs, MaxLimiterTicks)

SpecLimiter == InitLimiterSpec /\ [][NextLimiter]_vars

-----------------------------------------------------------------------------
(* Helpers of the properties *)

HasRow(docs, id) == \E r \in docs : r.id = id

HasVectors(vs, id) == \E i \in 1..Len(vs) : vs[i].doc_id = id

\* no call is in progress
Quiescent == \A t \in Callers : tasks[t].pc \in {"idle", "done"}

NonWhitespace(s) == SelectSeq(s, LAMBDA b : b \notin {" ", "\n", "S0", "S1"})

\* the position after the leftmost occurrences, in order and from position j
\* of b on, of the bytes a[lo..hi]; Len(b) + 2 when they do not all occur
RECURSIVE GreedyEnd(_, _, _, _, _)
GreedyEnd(a, lo, hi, b, j) ==
    IF lo > hi THEN j
    ELSE IF lo = hi
    THEN LET S == {k \in j..Len(b) : b[k] = a[lo]}
         IN IF S = {} THEN Len(b) + 2 ELSE (CHOOSE k \in S : \A m \in S : k <= m) + 1
    ELSE LET mid == (lo + hi) \div 2
             left == GreedyEnd(a, lo, mid, b, j)
         IN IF left > Len(b) + 1 THEN left ELSE GreedyEnd(a, mid + 1, hi, b, left)

\* a is a subsequence of b: the bytes of a occur in b in the same order
IsSubsequence(a, b) == GreedyEnd(a, 1, Len(a), b, 1) <= Len(b) + 1

\* the chunk starts with the marker of an injected overlap, "...\n"
HasOverlapPrefix(c) ==
    Len(c) >= 4 /\ SubSeq(c, 1, 4) = <<".", ".", ".", "\n">>

\* the first 1-based position of "\n---\n" in c, 0 if none
RECURSIVE RuleFrom(_, _)
RuleFrom(c, k) ==
    IF k + 4 > Len(c) THEN 0
    ELSE IF SubSeq(c, k, k + 4) = <<"\n", "-", "-", "-", "\n">> THEN k
    ELSE RuleFrom(c, k + 1)

\* the chunk without its injected overlap prefix
StripOverlap(c) ==
    IF HasOverlapPrefix(c) /\ RuleFrom(c, 4) # 0
    THEN SubSeq(c, RuleFrom(c, 4) + 5, Len(c))
    ELSE c

\* the chunk is one paragraph of the text: it holds no blank line and no
\* injected overlap
SingleParagraph(c) == BlankLineFrom(c, 1) = 0 /\ ~HasOverlapPrefix(c)

\* the words of the query occur in the document doc_id and nowhere else in
\* the two stores
PhraseOnlyIn(query, doc_id) ==
    LET words == escape_fts5_query(query)
    IN /\ words # <<>>
       /\ \E r \in documents : r.id = doc_id /\ fts_match(words, r.content)
       /\ \A r \in documents : r.id # doc_id => ~fts_match(words, r.content)
       /\ \A i \in 1..Len(vectors) :
             vectors[i].doc_id # doc_id => ~fts_match(words, vectors[i].chunk_text)

\* the 0-based ranks at which a result list holds the document
RanksOf(results, d) == {i - 1 : i \in {j \in 1..Len(results) : results[j].doc_id = d}}

MinOf(S) == CHOOSE x \in S : \A y \in S : x <= y

\* the sums 1/(60 + rank + 1) over the lists that hold the document, for each
\* choice of one rank of the document per list
FormulaScores(fts_results, vector_results, d) ==
    LET terms(results) ==
            IF RanksOf(results, d) = {} THEN {0}
            ELSE {rrf_contribution(r) : r \in RanksOf(results, d)}
    IN {F32Add(f, v) : f \in terms(fts_results), v \in terms(vector_results)}

-----------------------------------------------------------------------------
(* The properties *)

\* C1: between calls, every doc_id carried by a row of the vector table and
\* every doc_id keyword search can return has a row in the keyword store.
\* The code breaks it: re-ingesting a url gives the document a new id and
\* leaves the vectors of the old id behind.
C1_EveryHitResolves ==
    Quiescent =>
        /\ \A i \in 1..Len(vectors) : HasRow(documents, vectors[i].doc_id)
        /\ \A q \in Queries : \A d \in fts_hits(documents, fts, q) : HasRow(documents, d)

\* C2: the chunks, without their overlap prefixes and in order, hold every
\* non-whitespace byte of the text, in the order of the text.  The code
\* breaks it: a short pending chunk is overwritten when a paragraph longer
\* than max_characters follows it.
C2_AllContentCovered ==
    (cPhase = "out" /\ ~cOut.panic) =>
        IsSubsequence(NonWhitespace(cText),
            NonWhitespace(Concat([i \in 1..Len(cOut.chunks) |->
                                     StripOverlap(cOut.chunks[i])])))

\* C3: no chunk is longer than max_characters, unless it is a single
\* paragraph or line that is itself longer.  The code breaks it: a pending
\* chunk shorter than min_characters takes the next paragraph whatever the
\* sum, and the overlap prefix is added on top of a full chunk.
C3_ChunkWithinMax ==
    cPhase = "out" =>
        \A i \in 1..Len(cOut.chunks) :
            \/ Len(cOut.chunks[i]) <= cCfg.max_characters
            \/ SingleParagraph(cOut.chunks[i])

C6_EmbedFailureAborts ==
    \A t \in Callers :
        (tasks[t].op = "add" /\ tasks[t].failed_at = "embed") =>
            LET task == tasks[t]
            IN /\ task.pc = "done" /\ ~task.ok
               /\ task.sent = Len(task.entries) + 1
               /\ task.sent <= Len(task.chunks)
               /\ \E r \in documents :
                     r.id = task.doc_id /\ r.url = task.url /\ r.content = task.content
               /\ vectors = task.pre.vectors

\* C6 witness: the embedding of the second chunk of a document failed
C6_Witness ==
    \E t \in Callers :
        /\ tasks[t].op = "add" /\ tasks[t].failed_at = "embed"
        /\ Len(tasks[t].entries) >= 1

C8_RoundTrip ==
    \A t \in Callers :
        (/\ tasks[t].op = "search" /\ tasks[t].pc = "done" /\ tasks[t].ok
         /\ lastAdd # None
         /\ lastAdd # None => PhraseOnlyIn(tasks[t].query, lastAdd[1].doc_id)) =>
            \E i \in 1..Len(tasks[t].value) :
                /\ tasks[t].value[i].doc_id = lastAdd[1].doc_id
                /\ tasks[t].value[i].method \in {"Fts", "Vector", "Hybrid"}

\* C9: a document in both lists has a strictly higher fused score than a
\* document in one list only whose best rank is not better than the first
\* document's best rank.  The code breaks it: every chunk of a document in
\* the vector list adds its own contribution (see C10).
C9_ConsensusWins ==
    rPhase = "out" =>
        LET scores == rrf_scores(rFts, rVec)
            best(d) == MinOf(RanksOf(rFts, d) \cup RanksOf(rVec, d))
        IN \A x, y \in DOMAIN scores :
              (/\ RanksOf(rFts, x) # {} /\ RanksOf(rVec, x) # {}
               /\ (RanksOf(rFts, y) = {}) # (RanksOf(rVec, y) = {})
               /\ best(y) >= best(x))
                 => scores[x].score > scores[y].score

\* C10: the fused score of a doc_id is the sum, over the lists that hold it,
\* of 1/(60 + rank + 1) for its rank in that list.  The code breaks it: a
\* document with several chunks in the vector list gets one term per chunk.
C10_ScoreFormula ==
    rPhase = "out" =>
        \A i \in 1..Len(rOut) :
            rOut[i].rrf_score \in FormulaScores(rFts, rVec, rOut[i].doc_id)

\* C11: the list search returns has at most limit entries, is in the order
\* of non-increasing rrf_score, holds each doc_id at most once, and every
\* doc_id of the two backend lists that it leaves out has a fused score not
\* higher than any score it returns.
C11_SearchSortedAndCut ==
    \A t \in Callers :
        (tasks[t].op = "search" /\ tasks[t].pc = "done" /\ tasks[t].ok) =>
            LET task == tasks[t]
                v == task.value
                scores == rrf_scores(task.fts_results, task.vector_results)
                returned == {v[i].doc_id : i \in 1..Len(v)}
            IN /\ Len(v) <= task.limit
               /\ \A i \in 1..(Len(v) - 1) : v[i].rrf_score >= v[i + 1].rrf_score
               /\ \A i, j \in 1..Len(v) : i # j => v[i].doc_id # v[j].doc_id
               /\ \A d \in (DOMAIN scores) \ returned :
                     \A i \in 1..Len(v) : scores[d].score <= v[i].rrf_score

\* C11 witness: a search returned two results of different scores and left a
\* document of the backend lists out
C11_Witness ==
    \E t \in Callers :
        /\ tasks[t].op = "search" /\ tasks[t].pc = "done" /\ tasks[t].ok
        /\ Len(tasks[t].value) = 2
        /\ tasks[t].value[1].rrf_score > tasks[t].value[2].rrf_score
        /\ \E i \in 1..Len(tasks[t].vector_results) :
              \A j \in 1..2 :
                 tasks[t].value[j].doc_id # tasks[t].vector_results[i].doc_id

\* C19: when the chunker gives no chunk for the content, add_document returns
\* Ok with the id of the row it upserted, sends nothing to the embedding
\* client and leaves the vector table as it was.
C19_NoChunksNoVectors ==
    \A t \in Callers :
        (/\ tasks[t].op = "add" /\ tasks[t].failed_at # "store"
         /\ ChunksOf[tasks[t].content] = <<>>) =>
            LET task == tasks[t]
            IN /\ task.pc = "done" /\ task.ok
               /\ task.value = task.doc_id
               /\ \E r \in documents :
                     r.id = task.value /\ r.url = task.url /\ r.content = task.content
               /\ task.sent = 0
               /\ vectors = task.pre.vectors

\* C19 witness: content without chunks was added while vectors were stored
C19_Witness ==
    \E t \in Callers :
        /\ tasks[t].op = "add" /\ tasks[t].pc = "done" /\ tasks[t].ok
        /\ ChunksOf[tasks[t].content] = <<>>
        /\ tasks[t].pre.vectors # <<>>

OverlapText(i) ==
    SubSeq(cOut.chunks[i], 5, Len(cOut.chunks[i]) - Len(cRaw[i]) - 5)

\* chunk i of the result carries an overlap prefix
CarriesOverlap(i) == cOut.chunks[i] # cRaw[i]

\* the number of characters of s
CharCount(s) == Len(SelectSeq(s, LAMBDA b : ~IsContinuation(b)))

\* C16: chunk returns a sequence of chunks for every text and configuration
\* and never panics; for blank text it returns the empty sequence.  The code
\* breaks it: apply_overlap starts the overlap one byte after the first
\* whitespace character of the tail, which is inside that character when it
\* is a multi-byte one, and the slice panics.
C16_ChunkTotal ==
    cPhase = "out" =>
        /\ ~cOut.panic
        /\ trim(cText) = <<>> => cOut.chunks = <<>>

\* C17: an overlap carried by chunk i is a suffix of raw chunk i-1, starts at
\* a word boundary of it and has at least 20 characters; chunk 1 carries no
\* overlap.  The code breaks it: when the tail of the previous chunk holds no
\* whitespace the overlap starts where the tail starts, inside a word.
C17_OverlapAtWordBoundary ==
    (cPhase = "out" /\ ~cOut.panic /\ cOut.chunks # <<>>) =>
        /\ ~CarriesOverlap(1)
        /\ \A i \in 2..Len(cOut.chunks) :
              CarriesOverlap(i) =>
                 LET prev == cRaw[i - 1]
                     ov == OverlapText(i)
                     start == Len(prev) - Len(ov)
                 IN /\ start >= 0
                    /\ SliceFrom(prev, start) = ov
                    /\ is_char_boundary(prev, start)
                    /\ start = 0 \/ prev[start] \in {" ", "\n", "S1"}
                    /\ CharCount(ov) >= MinOverlapLen

\* C18: a text that is not blank and is shorter than min_characters gives
\* exactly one chunk, without overlap prefix.  The code breaks it:
\* split_sections cuts at every header whatever the length of the text, and
\* nothing merges the sections again.
C18_ShortTextOneChunk ==
    (cPhase = "out" /\ trim(cText) # <<>> /\ Len(cText) < cCfg.min_characters) =>
        /\ ~cOut.panic
        /\ Len(cOut.chunks) = 1
        /\ cOut.chunks = cRaw


-----------------------------------------------------------------------------
(* Claims on the embedding client *)

LastOf(s) == s[Len(s)]

\* the upstream's answers so far are all the rate-limit status
AllRateLimited(hist) == \A i \in 1..Len(hist) : hist[i] = "429"

\* C12: an embed call answered 429, 429 and then success returns the
\* vector; a call answered 429 on all MAX_RETRIES + 1 = 4 attempts returns
\* an error, and not before the fourth; no call makes more than 4 upstream
\* attempts.
C12_RetryOnRateLimit ==
    /\ MAX_RETRIES + 1 = 4
    /\ \A t \in EmbedCallers :
         LET e == eTasks[t]
         IN  /\ Len(e.hist) <= 4 /\ e.admits <= 4
             /\ e.hist = <<"429", "429", "ok">> =>
                    e.pc = "done" /\ e.result = Some("ok")
             /\ (e.pc = "done" /\ e.hist # <<>> /\ AllRateLimited(e.hist)) =>
                    Len(e.hist) = 4
             /\ e.hist = <<"429", "429", "429", "429">> =>
                    e.pc = "done" /\ e.result = Some("error")

\* C12 witness: a call has returned an error after four 429 answers
C12_Witness ==
    \E t \in EmbedCallers :
        /\ eTasks[t].hist = <<"429", "429", "429", "429">>
        /\ eTasks[t].result = Some("error")

\* C13: once the upstream has answered an attempt with a non-success status
\* other than 429, embed has returned an error: there is no attempt, no
\* backoff sleep and no limiter timestamp after that answer.
C13_OtherStatusFailsAtOnce ==
    \A t \in EmbedCallers :
        LET e == eTasks[t]
        IN  (e.hist # <<>> /\ LastOf(e.hist) = "other") =>
                /\ e.pc = "done" /\ e.result = Some("error")
                /\ Len(e.sleeps) = Len(e.hist) - 1
                /\ e.admits = Len(e.hist)

\* C13 witness: the second attempt of a call was answered with another
\* status, and the call has failed
C13_Witness ==
    \E t \in EmbedCallers :
        /\ eTasks[t].hist = <<"429", "other">>
        /\ eTasks[t].result = Some("error")

\* C14: a transport failure at attempt k, in sending the request or in
\* reading the response body, is followed by a sleep of
\* INITIAL_BACKOFF_MS * 2^k and a retry if k < MAX_RETRIES, and by an error
\* after the last attempt.
C14_TransportFailureRetried ==
    \A t \in EmbedCallers :
        LET e == eTasks[t]
            k == Len(e.hist) - 1
        IN  (e.hist # <<>> /\ LastOf(e.hist) \in {"send_err", "body_err"}) =>
                IF k < MAX_RETRIES
                THEN /\ e.pc # "done"
                     /\ Len(e.sleeps) = k + 1
                     /\ e.sleeps[k + 1] = INITIAL_BACKOFF_MS * Pow2(k)
                ELSE e.pc = "done" /\ e.result = Some("error")

\* C15: the timestamps under which the limiter admits upstream attempts,
\* whoever makes them, are at least MIN_DELAY_MS = 1000 ms apart, and when
\* a caller's N-th embed call on non-blank text has returned, at least
\* (N - 1) * MIN_DELAY_MS have passed since its first call began.
C15_MinDelayBetweenAttempts ==
    /\ MIN_DELAY_MS = 1000
    /\ \A i \in 1..(Len(eAdmitted) - 1) :
         eAdmitted[i + 1] - eAdmitted[i] >= MIN_DELAY_MS
    /\ \A t \in EmbedCallers :
         LET e == eTasks[t]
         IN  (e.pc = "done" /\ e.result # Some("zeros")) =>
                 eNow - e.first_start[1] >= (e.calls - 1) * MIN_DELAY_MS

\* C15 witness: two callers have been admitted one after the other, and a
\* caller's second call has returned
C15_Witness ==
    /\ Len(eAdmitted) >= 3
    /\ \E t \in EmbedCallers : eTasks[t].pc = "send" /\ eTasks[t].calls = 1
    /\ \E t \in EmbedCallers :
         /\ eTasks[t].pc = "done" /\ eTasks[t].calls = 2
         /\ eTasks[t].result # Some("zeros")


\* C24: embed on blank text has returned dimension zeros as soon as it is
\* entered, with no upstream attempt, without the limiter's lock and with
\* no timestamp recorded.
C24_BlankTextZeroVector ==
    \A t \in EmbedCallers :
        LET e == eTasks[t]
        IN  (e.pc # "idle" /\ e.blank) =>
                /\ e.pc = "done" /\ e.result = Some("zeros")
                /\ Len(e.vector) = Dimension
                /\ \A i \in 1..Len(e.vector) : e.vector[i] = 0
                /\ e.hist = <<>> /\ e.admits = 0
                /\ eLock # Some(t)

\* C24 witness: a call on blank text has returned on a client whose limiter
\* has admitted an attempt less than the minimum delay ago
C24_Witness ==
    \E t \in EmbedCallers :
        /\ eTasks[t].pc = "done" /\ eTasks[t].blank
        /\ eLimiter.last_request = Some(eNow)


\* the places of embed between lock() and the end of acquire
InAcquire == {"acquire", "pace_sleep", "window", "window_sleep", "record"}

\* C26: a caller is in acquire, its pacing check and its pacing sleep
\* included, only as the holder of the client's lock, and holds it nowhere
\* else, so not during the HTTP call nor during a backoff sleep; the
\* limiter's timestamps and last-request time change only in a step of the
\* holder.
C26_LimiterUnderLock ==
    /\ [](\A t \in EmbedCallers : eTasks[t].pc \in InAcquire <=> eLock = Some(t))
    /\ [][eLimiter' # eLimiter =>
            \E t \in EmbedCallers :
                /\ eLock = Some(t)
                /\ eTasks[t].pc \in InAcquire
                /\ eTasks'[t] # eTasks[t]
                /\ \A u \in EmbedCallers \ {t} : eTasks'[u] = eTasks[u]]_vars

\* C26 witness: one caller sleeps out the minimum delay under the lock
\* while the other is in a backoff sleep
C26_Witness ==
    \E t, u \in EmbedCallers :
        /\ eTasks[t].pc = "pace_sleep" /\ eLock = Some(t)
        /\ eTasks[u].pc = "backoff"


\* the timestamps of ts that are less than window before the time now
InWindow(ts, now, window) == {i \in 1..Len(ts) : now - ts[i] < window}

\* C27: the limiter's timestamps are in non-decreasing order and at most
\* max_requests of them lie within the window that ends at the last one;
\* of all the attempts ever admitted, at most max_requests lie within any
\* window; a caller that finds the window full sleeps until the oldest
\* timestamp is a window old, and the list is pruned again, so it is not
\* full, when the new timestamp is recorded.
C27_WindowBound ==
    LET ts == eLimiter.requests
    IN  /\ \A i \in 1..(Len(ts) - 1) : ts[i] <= ts[i + 1]
        /\ eLimiter.last_request # None =>
               Cardinality(InWindow(ts, eLimiter.last_request[1], eLimiter.window))
                   <= eLimiter.max_requests
        /\ \A j \in 1..Len(eAdmitted) :
               Cardinality(InWindow(eAdmitted, eAdmitted[j], eLimiter.window)
                               \cap 1..j) <= eLimiter.max_requests
        /\ \A t \in EmbedCallers :
               /\ eTasks[t].pc = "window_sleep" =>
                      /\ Len(ts) >= eLimiter.max_requests
                      /\ eTasks[t].wake = ts[1] + eLimiter.window
               /\ eTasks[t].pc = "record" => Len(ts) < eLimiter.max_requests

\* C27 witness: an attempt was admitted after the window had been full, a
\* window after the oldest timestamp, which is pruned
C27_Witness ==
    /\ Len(eAdmitted) = SmallMaxRequests + 1
    /\ eLimiter.max_requests = SmallMaxRequests
    /\ eAdmitted[SmallMaxRequests + 1] - eAdmitted[1] >= eLimiter.window
    /\ eAdmitted[SmallMaxRequests + 1] - eAdmitted[SmallMaxRequests] > MIN_DELAY_MS
    /\ Len(eLimiter.requests) = SmallMaxRequests


-----------------------------------------------------------------------------
(* Claims on the results of the searches *)

InFtsList(d) == \E j \in 1..Len(rFts) : rFts[j].doc_id = d

InVectorList(d) == \E j \in 1..Len(rVec) : rVec[j].doc_id = d

\* C22: a fused result is tagged Hybrid exactly when its doc_id is in both
\* lists, Fts when in the keyword list alone, Vector when in the vector list
\* alone; it has a snippet exactly when its doc_id is in the keyword list and
\* a chunk_text exactly when it is in the vector list.
C22_ProvenanceMatchesLists ==
    rPhase = "out" =>
        \A i \in 1..Len(rOut) :
            LET r == rOut[i]
                f == InFtsList(r.doc_id)
                v == InVectorList(r.doc_id)
            IN  /\ r.method = "Hybrid" <=> (f /\ v)
                /\ r.method = "Fts" <=> (f /\ ~v)
                /\ r.method = "Vector" <=> (~f /\ v)
                /\ r.snippet # None <=> f
                /\ r.chunk_text # None <=> v

\* C22 witness: a merge returned a result found by both methods and a
\* result found by one
C22_Witness ==
    /\ rPhase = "out"
    /\ \E i, j \in 1..Len(rOut) :
         /\ rOut[i].method = "Hybrid"
         /\ rOut[j].method \in {"Fts", "Vector"}


\* the hits the call of the state was made on
HitsOf(phase) == IF phase = "fts_out" THEN rFts ELSE rVec

C23_FtsScoresHigherIsBetter ==
    rPhase = "fts_out" =>
        /\ \A i \in 1..Len(rOut) :
               /\ rOut[i].rrf_score = F32Recip(1 + Abs(rBm25[i]))
               /\ 0 < rOut[i].rrf_score /\ rOut[i].rrf_score <= F32Unit
        /\ \A i \in 1..(Len(rOut) - 1) :
               rOut[i].rrf_score >= rOut[i + 1].rrf_score


-----------------------------------------------------------------------------
(* Claims on the merging of small chunks *)

\* the chunks of a section longer than max_characters as they enter
\* merge_small_chunks
BeforeMerge(cfg, section) ==
    LET st == ParaLoop(cfg, split_paragraphs(section), 1,
                       [chunks |-> <<>>, current |-> <<>>])
    IN IF st.current # <<>> THEN Append(st.chunks, st.current) ELSE st.chunks

AllWithin(chunks, max) == \A i \in 1..Len(chunks) : Len(chunks[i]) <= max

\* C28: among the raw chunks of chunk, no chunk shorter than min_characters
\* directly follows a chunk to which it could be appended, with the
\* two-byte separator, within max_characters; and merge_small_chunks makes
\* no chunk longer than max_characters out of chunks that are all within it.
C28_SmallChunksMerged ==
    cPhase = "out" =>
        /\ \A i \in 2..Len(cRaw) :
               ~ /\ Len(cRaw[i]) < cCfg.min_characters
                 /\ Len(cRaw[i - 1]) + Len(cRaw[i]) + 2 <= cCfg.max_characters
        /\ LET sections == split_sections(cText)
           IN \A k \in 1..Len(sections) :
                 (/\ trim(cText) # <<>>
                  /\ Len(sections[k]) > cCfg.max_characters
                  /\ AllWithin(BeforeMerge(cCfg, sections[k]), cCfg.max_characters))
                 => AllWithin(merge_small_chunks(cCfg, BeforeMerge(cCfg, sections[k])),
                              cCfg.max_characters)

\* the chunk_index values the vector table holds for doc_id
ChunkIndexes(vs, doc_id) ==
    {vs[i].chunk_index : i \in {j \in 1..Len(vs) : vs[j].doc_id = doc_id}}

\* C29: whatever add_document and delete_document calls were made one after
\* the other, a url ingested again included, the vector table never holds two
\* entries with the same (doc_id, chunk_index), and the chunk_index values of
\* every doc_id it holds are exactly 0..n-1 for some n >= 1.
C29_ChunkIndexesDense ==
    /\ \A i, j \in 1..Len(vectors) :
          (vectors[i].doc_id = vectors[j].doc_id
             /\ vectors[i].chunk_index = vectors[j].chunk_index) => i = j
    /\ \A i \in 1..Len(vectors) :
          LET indexes == ChunkIndexes(vectors, vectors[i].doc_id)
          IN indexes = 0..(Cardinality(indexes) - 1)

\* C29 witness: a url whose document had two vectors was ingested again with
\* content of one chunk, so that the table holds the vectors of both doc_ids
C29_Witness ==
    \E t \in Callers :
        /\ tasks[t].op = "add" /\ tasks[t].pc = "done" /\ tasks[t].ok
        /\ Len(tasks[t].entries) = 1
        /\ \E r \in tasks[t].pre.documents :
              /\ r.url = tasks[t].url
              /\ ChunkIndexes(vectors, r.id) = {0, 1}
        /\ ChunkIndexes(vectors, tasks[t].doc_id) = {0}

\* C25: however concurrent add_document and delete_document calls over
\* distinct urls interleave, once all of them have returned every doc_id that
\* has vectors in the vector table has a row in the keyword store.  The code
\* breaks it: a delete_document(d) that runs between the store insert of the
\* add_document that created d and its insert_batch removes the row, and the
\* insert_batch then writes the vectors of d.
C25_VectorsHaveRow ==
    Quiescent =>
        \A i \in 1..Len(vectors) : HasRow(documents, vectors[i].doc_id)

-----------------------------------------------------------------------------
(* Claims on the word-based chunker *)

\* the words of chunks taken in order: the chunks cover words, each chunk
\* after the first beginning with the last overlap words of the one before
CoversWithOverlap(words, chunks, overlap) ==
    LET cw == [k \in 1..Len(chunks) |-> split_whitespace(chunks[k])]
    IN /\ Concat([k \in 1..Len(chunks) |->
                    IF k = 1 THEN cw[k] ELSE SliceFrom(cw[k], overlap)]) = words
       /\ \A k \in 2..Len(chunks) :
             /\ Len(cw[k]) >= overlap /\ Len(cw[k - 1]) >= overlap
             /\ SubSeq(cw[k], 1, overlap)
                  = SliceFrom(cw[k - 1], Len(cw[k - 1]) - overlap)

\* C30: for every text, every chunk_size >= 1 and every overlap >= 0, those
\* with overlap >= chunk_size included, chunk_text returns, and the chunks it
\* returns contain every word of the text in order, consecutive chunks
\* sharing exactly overlap words.  The code breaks it: with
\* overlap = chunk_size start never moves and the loop never ends, and with
\* overlap > chunk_size the difference chunk_size - overlap overflows, which
\* panics or ends the loop after the first chunk.
C30_ChunkTextTerminatesAndCovers ==
    /\ <>(wPhase = "done")
    /\ [](wPhase = "done" =>
            CoversWithOverlap(split_whitespace(wText), wChunks, wOverlap))

=============================================================================
